---- MODULE Spec2Model ----
(***************************************************************************)
(* GlobalDeviceArray (jax/experimental/global_device_array.py): the shard  *)
(* index of every mesh device, the replica numbering, the local/global     *)
(* partition of the shards and the three callback construction strategies. *)
(***************************************************************************)
EXTENDS Integers, Sequences, FiniteSets, TLC

\* ------------------------------------------------------------------ bounds
\* Largest size of one mesh axis.
MaxAxisSize == 2
\* Largest size of one axis of the global array.
MaxDim == 4

\* The mesh axes, in the mesh's declared order (Mesh.axis_names).
axis_names == <<"x", "y">>
\* The process ids of the cooperating processes.
Procs == {0, 1}
\* Element types a buffer can have.
F32 == "float32"
I32 == "int32"
\* Python's None in a Shard's data field.
None == [none |-> TRUE]

RECURSIVE prod(_)
prod(s) == IF s = <<>> THEN 1 ELSE Head(s) * prod(Tail(s))

Reverse(s) == [i \in 1..Len(s) |-> s[Len(s) + 1 - i]]
Rotate(s) == IF s = <<>> THEN s ELSE Append(Tail(s), Head(s))

\* ------------------------------------------------------------ mesh topology
\* Mesh.shape: axis name -> axis size.
MeshShapes == [{axis_names[j] : j \in DOMAIN axis_names} -> 1..MaxAxisSize]

MeshSizes(mesh_shape) == [j \in DOMAIN axis_names |-> mesh_shape[axis_names[j]]]

\* Device ownership: consecutive runs of `stride` devices of the flat traversal
\* belong to one process, the runs alternating between the processes.
Strides == {1, 2, MaxAxisSize * MaxAxisSize}

\* Mesh.devices.flat: the devices in row-major order over the mesh axes.
MeshDevices(mesh_shape, stride) ==
  [p \in 1..prod(MeshSizes(mesh_shape)) |->
     [id |-> p - 1, process_index |-> ((p - 1) \div stride) % Cardinality(Procs)]]

Mesh(mesh_shape, stride) ==
  [shape |-> mesh_shape, devices |-> MeshDevices(mesh_shape, stride)]

\* Mesh.local_devices: the devices of the current process, in flat order.
local_devices(global_mesh, proc) ==
  SelectSeq(global_mesh.devices, LAMBDA d : d.process_index = proc)

\* Position of a mesh axis in axis_names.
AxisPos(name) == CHOOSE j \in DOMAIN axis_names : axis_names[j] = name

\* Coordinate, along mesh axis `name`, of the device at flat position p (1-based).
Coord(mesh_shape, p, name) ==
  LET j == AxisPos(name)
      after == [k \in 1..(Len(axis_names) - j) |-> mesh_shape[axis_names[j + k]]]
  IN  ((p - 1) \div prod(after)) % mesh_shape[name]

\* ------------------------------------------------------------- axis mapping
\* One entry of mesh_axes: None, one mesh axis name, or a tuple of names.
NoAxis == [kind |-> "none", names |-> <<>>]
OneAxis(a) == [kind |-> "axis", names |-> <<a>>]
AxisTuple(t) == [kind |-> "tuple", names |-> t]

AxisNameSet == {axis_names[j] : j \in DOMAIN axis_names}

MeshAxisEntries ==
  {NoAxis} \cup {OneAxis(a) : a \in AxisNameSet}
           \cup {AxisTuple(t) : t \in {u \in AxisNameSet \X AxisNameSet : u[1] # u[2]}}

\* Global shapes (rank 2) and the mesh_axes sequences of length <= rank.
Shapes == (0..MaxDim) \X (0..MaxDim)

RECURSIVE Concat(_)
Concat(ss) == IF ss = <<>> THEN <<>> ELSE Head(ss) \o Concat(Tail(ss))

UsedAxes(mesh_axes) == Concat([i \in DOMAIN mesh_axes |-> mesh_axes[i].names])

NoRepeat(s) == \A i, j \in DOMAIN s : s[i] = s[j] => i = j

\* A normalized mapping names every mesh axis at most once.
MeshAxesSet ==
  {m \in {<<>>} \cup {<<e>> : e \in MeshAxisEntries}
                \cup (MeshAxisEntries \X MeshAxisEntries) : NoRepeat(UsedAxes(m))}

\* The number of mesh devices one array axis is split over.
Divisor(mesh_shape, entry) == prod([k \in DOMAIN entry.names |-> mesh_shape[entry.names[k]]])

\* The caller's contract: every sharded array axis divides exactly.
Divisible(global_shape, mesh_shape, mesh_axes) ==
  \A i \in DOMAIN mesh_axes :
     i <= Len(global_shape) => global_shape[i] % Divisor(mesh_shape, mesh_axes[i]) = 0

\* ---------------------------------------------------------- get_shard_shape
\* Divides by the first mesh axis of a tuple only.
MutShardShapeFirstOfTuple(global_shape, global_mesh, mesh_axes) ==
  [i \in 1..Len(global_shape) |->
     IF i > Len(mesh_axes) THEN global_shape[i]
     ELSE LET mesh_axis == mesh_axes[i]
              size == global_shape[i]
          IN  IF mesh_axis.kind = "none" \/ mesh_axis.names = <<>> THEN size
              ELSE size \div global_mesh.shape[mesh_axis.names[1]]]

\* Takes the remainder where the quotient is meant.
MutShardShapeRemainder(global_shape, global_mesh, mesh_axes) ==
  [i \in 1..Len(global_shape) |->
     IF i > Len(mesh_axes) THEN global_shape[i]
     ELSE LET mesh_axis == mesh_axes[i]
              size == global_shape[i]
          IN  IF mesh_axis.kind = "none" \/ mesh_axis.names = <<>> THEN size
              ELSE size % prod([k \in DOMAIN mesh_axis.names |->
                                  global_mesh.shape[mesh_axis.names[k]]])]

get_shard_shape(global_shape, global_mesh, mesh_axes) ==
  [i \in 1..Len(global_shape) |->
     IF i > Len(mesh_axes) THEN global_shape[i]
     ELSE LET mesh_axis == mesh_axes[i]
              size == global_shape[i]
          IN  IF mesh_axis.kind = "none" \/ mesh_axis.names = <<>> THEN size
              ELSE IF mesh_axis.kind = "tuple"
                   THEN size \div prod([k \in DOMAIN mesh_axis.names |->
                                           global_mesh.shape[mesh_axis.names[k]]])
                   ELSE size \div global_mesh.shape[mesh_axis.names[1]]]

\* -------------------------------------------------------- get_shard_indices
\* A device's coordinate in the joint index space of the mesh axes `names`,
\* combined row-major in the order the entry lists them.
RECURSIVE JointCoord(_, _, _)
JointCoord(mesh_shape, p, names) ==
  IF names = <<>> THEN 0
  ELSE LET n == Len(names)
       IN  JointCoord(mesh_shape, p, SubSeq(names, 1, n - 1)) * mesh_shape[names[n]]
             + Coord(mesh_shape, p, names[n])

\* The Index (one slice per array axis) of the device at flat position p.
IndexOf(global_shape, global_mesh, mesh_axes, p) ==
  LET ss == get_shard_shape(global_shape, global_mesh, mesh_axes)
  IN  [i \in 1..Len(global_shape) |->
         LET names == IF i <= Len(mesh_axes) THEN mesh_axes[i].names ELSE <<>>
             c == JointCoord(global_mesh.shape, p, names)
         IN  IF names = <<>>
             THEN [start |-> 0, stop |-> global_shape[i]]
             ELSE [start |-> c * ss[i], stop |-> c * ss[i] + ss[i]]]

\* The device -> Index mapping, as the (device, index) items in flat device order.
get_shard_indices(global_shape, global_mesh, mesh_axes) ==
  [p \in DOMAIN global_mesh.devices |->
     [device |-> global_mesh.devices[p],
      index |-> IndexOf(global_shape, global_mesh, mesh_axes, p)]]

\* indices[device]
Lookup(indices, device) ==
  indices[CHOOSE p \in DOMAIN indices : indices[p].device.id = device.id].index

\* ------------------------------------------------------- buffers, callbacks
\* The extent of an Index along every array axis.
Extent(index) == [i \in DOMAIN index |-> index[i].stop - index[i].start]

\* User data functions. "slice" is global_input_data[index]; "whole" ignores the
\* index and returns the global array; "mixed" changes element type with the index.
Callbacks == {"slice", "whole", "mixed"}

Apply(cb, index, gshape) ==
  CASE cb = "slice" -> [shape |-> Extent(index), dtype |-> F32, data |-> index]
    [] cb = "whole" -> [shape |-> gshape, dtype |-> F32,
                        data |-> [i \in DOMAIN gshape |-> [start |-> 0, stop |-> gshape[i]]]]
    [] cb = "mixed" -> [shape |-> Extent(index),
                        dtype |-> IF index[1].start = 0 THEN F32 ELSE I32,
                        data |-> index]

\* device_put(x, device): a DeviceArray holding x on `device`.
device_put(x, device) ==
  [device |-> device, shape |-> x.shape, dtype |-> x.dtype, data |-> x.data]

\* ------------------------------------------------------------ _HashableIndex
MutHashableIndexFirstAxis(index) == [val |-> SubSeq(index, 1, 1)]

\* Equality and hashing are those of the tuple of (start, stop) slices.
_HashableIndex(index) == [val |-> index]

\* A Counter / defaultdict keyed by _HashableIndex, as the items in insertion order.
KeyPos(d, h) == {k \in DOMAIN d : d[k].key = h}
HasKey(d, h) == KeyPos(d, h) # {}
Get(d, h, default) == IF HasKey(d, h) THEN d[CHOOSE k \in KeyPos(d, h) : TRUE].value ELSE default
Put(d, h, v) ==
  IF HasKey(d, h) THEN [d EXCEPT ![CHOOSE k \in KeyPos(d, h) : TRUE].value = v]
  ELSE Append(d, [key |-> h, value |-> v])

\* ------------------------------------------------------------ _create_shards
Shard(device, index, replica_id, data) ==
  [device |-> device, index |-> index, replica_id |-> replica_id, data |-> data]

\* Attaches the k-th buffer to the k-th lowest device that has a buffer.
MutDeviceToBufferPositional(device_buffers) ==
  LET ids == {device_buffers[k].device.id : k \in DOMAIN device_buffers}
      rank(i) == Cardinality({j \in ids : j <= i})
  IN  [i \in ids |-> device_buffers[rank(i)]]

\* dict((db.device(), db) for db in device_buffers): a later buffer on the same
\* device replaces an earlier one.
device_to_buffer(device_buffers) ==
  LET ids == {device_buffers[k].device.id : k \in DOMAIN device_buffers}
      last(i) == CHOOSE k \in DOMAIN device_buffers :
                   /\ device_buffers[k].device.id = i
                   /\ \A j \in DOMAIN device_buffers :
                        device_buffers[j].device.id = i => j <= k
  IN  [i \in ids |-> device_buffers[last(i)]]

NoShards == [gs |-> <<>>, ls |-> <<>>, index_to_replica |-> <<>>, exc |-> "", built |-> 0]

\* Numbers a replica after the counter is incremented.
MutStepReplicaAfterIncrement(acc, item, d2b, proc) ==
  LET device == item.device
      index == item.index
      h_index == _HashableIndex(index)
      replica_id == Get(acc.index_to_replica, h_index, 0) + 1
      counter == Put(acc.index_to_replica, h_index, replica_id)
      local_shard == device.process_index = proc
  IN  IF local_shard /\ device.id \notin DOMAIN d2b
      THEN [acc EXCEPT !.exc = "KeyError", !.index_to_replica = counter]
      ELSE LET buf == IF local_shard THEN d2b[device.id] ELSE None
               sh == Shard(device, index, replica_id, buf)
           IN  IF local_shard /\ sh.data = None
               THEN [gs |-> Append(acc.gs, sh), ls |-> acc.ls, index_to_replica |-> counter,
                     exc |-> "ValueError", built |-> acc.built + 1]
               ELSE [gs |-> Append(acc.gs, sh),
                     ls |-> IF local_shard THEN Append(acc.ls, sh) ELSE acc.ls,
                     index_to_replica |-> counter, exc |-> "", built |-> acc.built + 1]

\* Counts replicas among the local devices only.
MutStepCountLocalOnly(acc, item, d2b, proc) ==
  LET device == item.device
      index == item.index
      h_index == _HashableIndex(index)
      replica_id == Get(acc.index_to_replica, h_index, 0)
      local_shard == device.process_index = proc
      counter == IF local_shard THEN Put(acc.index_to_replica, h_index, replica_id + 1)
                 ELSE acc.index_to_replica
  IN  IF local_shard /\ device.id \notin DOMAIN d2b
      THEN [acc EXCEPT !.exc = "KeyError", !.index_to_replica = counter]
      ELSE LET buf == IF local_shard THEN d2b[device.id] ELSE None
               sh == Shard(device, index, replica_id, buf)
           IN  IF local_shard /\ sh.data = None
               THEN [gs |-> Append(acc.gs, sh), ls |-> acc.ls, index_to_replica |-> counter,
                     exc |-> "ValueError", built |-> acc.built + 1]
               ELSE [gs |-> Append(acc.gs, sh),
                     ls |-> IF local_shard THEN Append(acc.ls, sh) ELSE acc.ls,
                     index_to_replica |-> counter, exc |-> "", built |-> acc.built + 1]

\* Keeps only the local shards in the global list.
MutStepGlobalLocalOnly(acc, item, d2b, proc) ==
  LET device == item.device
      index == item.index
      h_index == _HashableIndex(index)
      replica_id == Get(acc.index_to_replica, h_index, 0)
      counter == Put(acc.index_to_replica, h_index, replica_id + 1)
      local_shard == device.process_index = proc
  IN  IF local_shard /\ device.id \notin DOMAIN d2b
      THEN [acc EXCEPT !.exc = "KeyError", !.index_to_replica = counter]
      ELSE LET buf == IF local_shard THEN d2b[device.id] ELSE None
               sh == Shard(device, index, replica_id, buf)
           IN  IF local_shard /\ sh.data = None
               THEN [gs |-> Append(acc.gs, sh), ls |-> acc.ls, index_to_replica |-> counter,
                     exc |-> "ValueError", built |-> acc.built + 1]
               ELSE [gs |-> IF local_shard THEN Append(acc.gs, sh) ELSE acc.gs,
                     ls |-> IF local_shard THEN Append(acc.ls, sh) ELSE acc.ls,
                     index_to_replica |-> counter, exc |-> "", built |-> acc.built + 1]

\* One iteration of the loop over indices.items().
shard_step(acc, item, d2b, proc) ==
  LET device == item.device
      index == item.index
      h_index == _HashableIndex(index)
      replica_id == Get(acc.index_to_replica, h_index, 0)
      counter == Put(acc.index_to_replica, h_index, replica_id + 1)
      local_shard == device.process_index = proc
  IN  IF local_shard /\ device.id \notin DOMAIN d2b
      THEN [acc EXCEPT !.exc = "KeyError", !.index_to_replica = counter]
      ELSE LET buf == IF local_shard THEN d2b[device.id] ELSE None
               sh == Shard(device, index, replica_id, buf)
           IN  IF local_shard /\ sh.data = None
               THEN [gs |-> Append(acc.gs, sh), ls |-> acc.ls, index_to_replica |-> counter,
                     exc |-> "ValueError", built |-> acc.built + 1]
               ELSE [gs |-> Append(acc.gs, sh),
                     ls |-> IF local_shard THEN Append(acc.ls, sh) ELSE acc.ls,
                     index_to_replica |-> counter, exc |-> "", built |-> acc.built + 1]

RECURSIVE shard_loop(_, _, _, _)
shard_loop(items, d2b, proc, acc) ==
  IF items = <<>> \/ acc.exc # "" THEN acc
  ELSE shard_loop(Tail(items), d2b, proc, shard_step(acc, Head(items), d2b, proc))

_create_shards(gshape, mesh, maxes, device_buffers, proc) ==
  shard_loop(get_shard_indices(gshape, mesh, maxes), device_to_buffer(device_buffers),
             proc, NoShards)

\* ------------------------------------------------------------------ __init__
\* A constructor that raises hands no array to its caller: no shard list exists;
\* shards_built keeps the number of Shard objects built before the exception.
Raised(exc, cs) ==
  [status |-> exc, global_shards |-> <<>>, local_shards |-> <<>>, dtype |-> "",
   shards_built |-> cs.built]

Constructed(cs, dt) ==
  [status |-> "ok", global_shards |-> cs.gs, local_shards |-> cs.ls, dtype |-> dt,
   shards_built |-> cs.built]

\* Builds the shards before it compares the buffer count.
MutInitLateCount(gshape, mesh, maxes, device_buffers, proc) ==
  LET cs == _create_shards(gshape, mesh, maxes, device_buffers, proc)
  IN  IF cs.exc # "" THEN Raised(cs.exc, cs)
      ELSE IF Len(device_buffers) # Len(local_devices(mesh, proc))
      THEN Raised("AssertionError: len", cs)
      ELSE IF \E k \in DOMAIN device_buffers :
                device_buffers[k].shape # get_shard_shape(gshape, mesh, maxes)
      THEN Raised("AssertionError: shape", cs)
      ELSE IF device_buffers = <<>> THEN Raised("IndexError", cs)
      ELSE IF \E k \in DOMAIN device_buffers :
                device_buffers[k].dtype # device_buffers[1].dtype
      THEN Raised("AssertionError: dtype", cs)
      ELSE Constructed(cs, device_buffers[1].dtype)

\* Does not compare the buffer count with the local device count.
MutInitNoCount(gshape, mesh, maxes, device_buffers, proc) ==
  LET cs == _create_shards(gshape, mesh, maxes, device_buffers, proc)
      ss == get_shard_shape(gshape, mesh, maxes)
  IN  IF cs.exc # "" THEN Raised(cs.exc, cs)
      ELSE IF \E k \in DOMAIN device_buffers : device_buffers[k].shape # ss
      THEN Raised("AssertionError: shape", cs)
      ELSE IF device_buffers = <<>> THEN Raised("IndexError", cs)
      ELSE IF \E k \in DOMAIN device_buffers :
                device_buffers[k].dtype # device_buffers[1].dtype
      THEN Raised("AssertionError: dtype", cs)
      ELSE Constructed(cs, device_buffers[1].dtype)

\* The constructor: the status it ends with and the fields it leaves.
GDA_init(gshape, mesh, maxes, device_buffers, proc) ==
  IF Len(device_buffers) # Len(local_devices(mesh, proc))
  THEN Raised("AssertionError: len", NoShards)
  ELSE LET cs == _create_shards(gshape, mesh, maxes, device_buffers, proc)
           ss == get_shard_shape(gshape, mesh, maxes)
       IN  IF cs.exc # "" THEN Raised(cs.exc, cs)
           ELSE IF \E k \in DOMAIN device_buffers : device_buffers[k].shape # ss
           THEN Raised("AssertionError: shape", cs)
           ELSE IF device_buffers = <<>> THEN Raised("IndexError", cs)
           ELSE IF \E k \in DOMAIN device_buffers :
                     device_buffers[k].dtype # device_buffers[1].dtype
           THEN Raised("AssertionError: dtype", cs)
           ELSE Constructed(cs, device_buffers[1].dtype)

\* ---------------------------------------------------- construction strategies
\* Treats the k-th local device as the k-th device of the mesh.
MutCallbackBuffersByPosition(cb, gshape, idx, lds) ==
  [k \in DOMAIN lds |-> device_put(Apply(cb, idx[k].index, gshape), lds[k])]

\* from_callback: one call per local device, with that device's Index.
callback_buffers(cb, gshape, idx, lds) ==
  [k \in DOMAIN lds |-> device_put(Apply(cb, Lookup(idx, lds[k]), gshape), lds[k])]

\* from_batched_callback: one call with the local devices' Indices, and the
\* arrays it returns put on the local devices in the same order.
batched_buffers(cb, gshape, idx, lds) ==
  LET local_indices == [k \in DOMAIN lds |-> Lookup(idx, lds[k])]
      local_arrays == [k \in DOMAIN local_indices |-> Apply(cb, local_indices[k], gshape)]
  IN  [k \in DOMAIN lds |-> device_put(local_arrays[k], lds[k])]

\* Makes one group per device, whatever its Index.
MutGroupPerDevice(idx, lds) ==
  [k \in DOMAIN lds |-> [index |-> Lookup(idx, lds[k]), devices |-> <<lds[k]>>]]

RECURSIVE index_to_device(_, _, _)
index_to_device(idx, lds, d) ==
  IF lds = <<>> THEN d
  ELSE LET h_index == _HashableIndex(Lookup(idx, Head(lds)))
       IN  index_to_device(idx, Tail(lds),
                           Put(d, h_index, Append(Get(d, h_index, <<>>), Head(lds))))

\* cb_inp: the (Index, devices) pairs, one per distinct Index of the local
\* devices, in the order the Indices first occur.
group_by_index(idx, lds) ==
  LET d == index_to_device(idx, lds, <<>>)
  IN  [k \in DOMAIN d |-> [index |-> d[k].key.val, devices |-> d[k].value]]

\* What a grouped user function hands back: a buffer on every device of every
\* group, or a single buffer per group (on the group's first device).
Returns == {"per_device", "per_group"}

grouped_callback(cb, gshape, inp, ret) ==
  IF ret = "per_device"
  THEN Concat([k \in DOMAIN inp |->
                 [j \in DOMAIN inp[k].devices |->
                    device_put(Apply(cb, inp[k].index, gshape), inp[k].devices[j])]])
  ELSE [k \in DOMAIN inp |->
          device_put(Apply(cb, inp[k].index, gshape), inp[k].devices[1])]

\* Orders in which a caller may hand over its buffers, or a mesh its local devices.
Orders == {"fwd", "rev", "rot"}
Permute(s, ord) == CASE ord = "fwd" -> s [] ord = "rev" -> Reverse(s) [] ord = "rot" -> Rotate(s)

\* Ways a caller's buffer sequence can be wrong: one buffer short, one too many,
\* two buffers on one device.
Defects == {"drop", "extra", "dup"}
Spoil(s, defect, extra) ==
  CASE defect = "drop" -> IF s = <<>> THEN s ELSE SubSeq(s, 1, Len(s) - 1)
    [] defect = "extra" -> Append(s, extra)
    [] defect = "dup" -> IF s = <<>> THEN s ELSE [s EXCEPT ![Len(s)].device = s[1].device]

\* The buffer sequences a caller hands to the constructor: one buffer per local
\* device in some order, or such a sequence spoiled.
CallerBuffers(cb, gshape, idx, lds) ==
  LET base == [k \in DOMAIN lds |-> device_put(Apply(cb, Lookup(idx, lds[k]), gshape), lds[k])]
      extra == device_put(Apply(cb, idx[1].index, gshape), idx[1].device)
  IN  {Permute(base, ord) : ord \in Orders} \cup {Spoil(base, defect, extra) : defect \in Defects}

\* -------------------------------------------------------------------- state
VARIABLES
  global_shape,    \* the global array's shape
  global_mesh,     \* the mesh: axis sizes and the flat device list
  mesh_axes,       \* the axis mapping
  process_index,   \* xb.process_index(): the process running the code
  op,              \* the entry point that ran ("idle" before any)
  indices,         \* what a call of get_shard_indices returned
  status,          \* "ok", or the exception the constructor raised
  global_shards,   \* GlobalDeviceArray._global_shards
  local_shards,    \* GlobalDeviceArray._local_shards
  dtype,           \* GlobalDeviceArray.dtype
  shards_built,    \* the number of Shard objects built by the call
  device_buffers,  \* the buffers handed to the constructor
  data_callback,   \* the user function of a callback strategy
  cb_returns,      \* what the grouped user function returns
  cb_calls,        \* the number of calls of the user function
  cb_inp,          \* the argument of the grouped user function
  prev             \* the array an earlier construction on the same inputs gave

vars == <<global_shape, global_mesh, mesh_axes, process_index, op, indices, status,
          global_shards, local_shards, dtype, shards_built, device_buffers,
          data_callback, cb_returns, cb_calls, cb_inp, prev>>

Inputs == <<global_shape, global_mesh, mesh_axes>>

NoPrev == [status |-> "none"]

Fresh ==
  /\ op = "idle"
  /\ indices = <<>>
  /\ status = "idle"
  /\ global_shards = <<>>
  /\ local_shards = <<>>
  /\ dtype = ""
  /\ shards_built = 0
  /\ device_buffers = <<>>
  /\ data_callback = ""
  /\ cb_returns = ""
  /\ cb_calls = 0
  /\ cb_inp = <<>>

\* Any shape, mesh, ownership and axis mapping that satisfy the caller's
\* divisibility contract, seen from any process.
Init ==
  /\ global_shape \in Shapes
  /\ \E ms \in MeshShapes, st \in Strides : global_mesh = Mesh(ms, st)
  /\ mesh_axes \in MeshAxesSet
  /\ process_index \in Procs
  /\ Divisible(global_shape, global_mesh.shape, mesh_axes)
  /\ Fresh
  /\ prev = NoPrev

\* The constructor's outcome r becomes the state.
Outcome(r) ==
  /\ status' = r.status
  /\ global_shards' = r.global_shards
  /\ local_shards' = r.local_shards
  /\ dtype' = r.dtype
  /\ shards_built' = r.shards_built

GetShardIndices ==
  /\ op = "idle"
  /\ op' = "get_shard_indices"
  /\ indices' = get_shard_indices(global_shape, global_mesh, mesh_axes)
  /\ UNCHANGED <<Inputs, process_index, status, global_shards, local_shards, dtype,
                 shards_built, device_buffers, data_callback, cb_returns, cb_calls,
                 cb_inp, prev>>

\* GlobalDeviceArray(global_shape, global_mesh, mesh_axes, device_buffers)
Construct ==
  /\ op = "idle"
  /\ \E cb \in Callbacks :
       LET idx == get_shard_indices(global_shape, global_mesh, mesh_axes)
           lds == local_devices(global_mesh, process_index)
       IN  \E dbs \in CallerBuffers(cb, global_shape, idx, lds) :
             /\ device_buffers' = dbs
             /\ Outcome(GDA_init(global_shape, global_mesh, mesh_axes, dbs, process_index))
  /\ op' = "construct"
  /\ UNCHANGED <<Inputs, process_index, indices, data_callback, cb_returns, cb_calls,
                 cb_inp, prev>>

\* The local devices are taken in any of Orders: the round trip may not depend
\* on the order Mesh.local_devices lists them in.
FromCallback ==
  /\ op = "idle"
  /\ \E cb \in Callbacks, ord \in Orders :
       LET idx == get_shard_indices(global_shape, global_mesh, mesh_axes)
           lds == Permute(local_devices(global_mesh, process_index), ord)
           dbs == callback_buffers(cb, global_shape, idx, lds)
       IN  /\ data_callback' = cb
           /\ cb_calls' = Len(lds)
           /\ device_buffers' = dbs
           /\ Outcome(GDA_init(global_shape, global_mesh, mesh_axes, dbs, process_index))
  /\ op' = "from_callback"
  /\ UNCHANGED <<Inputs, process_index, indices, cb_returns, cb_inp, prev>>

FromBatchedCallback ==
  /\ op = "idle"
  /\ \E cb \in Callbacks, ord \in Orders :
       LET idx == get_shard_indices(global_shape, global_mesh, mesh_axes)
           lds == Permute(local_devices(global_mesh, process_index), ord)
           dbs == batched_buffers(cb, global_shape, idx, lds)
       IN  /\ data_callback' = cb
           /\ cb_calls' = 1
           /\ device_buffers' = dbs
           /\ Outcome(GDA_init(global_shape, global_mesh, mesh_axes, dbs, process_index))
  /\ op' = "from_batched_callback"
  /\ UNCHANGED <<Inputs, process_index, indices, cb_returns, cb_inp, prev>>

FromBatchedCallbackWithDevices ==
  /\ op = "idle"
  /\ \E cb \in Callbacks, ord \in Orders, ret \in Returns :
       LET idx == get_shard_indices(global_shape, global_mesh, mesh_axes)
           lds == Permute(local_devices(global_mesh, process_index), ord)
           inp == group_by_index(idx, lds)
           dbs == grouped_callback(cb, global_shape, inp, ret)
       IN  /\ data_callback' = cb
           /\ cb_returns' = ret
           /\ cb_inp' = inp
           /\ cb_calls' = 1
           /\ device_buffers' = dbs
           /\ Outcome(GDA_init(global_shape, global_mesh, mesh_axes, dbs, process_index))
  /\ op' = "from_batched_callback_with_devices"
  /\ UNCHANGED <<Inputs, process_index, indices, prev>>

Next ==
  \/ GetShardIndices
  \/ Construct
  \/ FromCallback
  \/ FromBatchedCallback
  \/ FromBatchedCallbackWithDevices

Spec == Init /\ [][Next]_vars

\* ------------------------------------------ two constructions on one input
\* A second construction on the same global shape, mesh and axis mapping, by
\* the same or by another process: the first array is kept for comparison.
Again ==
  /\ op # "idle"
  /\ status = "ok"
  /\ prev = NoPrev
  /\ prev' = [status |-> status, process_index |-> process_index,
              device_buffers |-> device_buffers, global_shards |-> global_shards,
              local_shards |-> local_shards]
  /\ process_index' \in Procs
  /\ op' = "idle"
  /\ indices' = <<>>
  /\ status' = "idle"
  /\ global_shards' = <<>>
  /\ local_shards' = <<>>
  /\ dtype' = ""
  /\ shards_built' = 0
  /\ device_buffers' = <<>>
  /\ data_callback' = ""
  /\ cb_returns' = ""
  /\ cb_calls' = 0
  /\ cb_inp' = <<>>
  /\ UNCHANGED Inputs

InitPair ==
  /\ Init
  /\ \A i \in DOMAIN global_shape : global_shape[i] \in {0, MaxDim}

NextPair ==
  \/ Construct
  \/ FromBatchedCallback
  \/ Again

SpecPair == InitPair /\ [][NextPair]_vars

\* ============================================================== properties
Built == status = "ok"

\* GlobalDeviceArray.local_data(index)
local_data(p) == local_shards[p].data

NumLocal == Len(local_devices(global_mesh, process_index))

\* The positions of global_shards whose shard has the same Index as position p.
SameIndex(p) == {q \in DOMAIN global_shards : global_shards[q].index = global_shards[p].index}

\* C1: in an assembled array, for every Index value the shards with that Index
\* carry the replica ids 0..k-1, each once, increasing along the mesh's flat
\* device traversal (global_shards follows that traversal).
C1_ReplicaNumbering ==
  Built =>
    \A p \in DOMAIN global_shards :
      /\ global_shards[p].device = global_mesh.devices[p]
      /\ {global_shards[q].replica_id : q \in SameIndex(p)} = 0..(Cardinality(SameIndex(p)) - 1)
      /\ \A q \in SameIndex(p) :
           q < p => global_shards[q].replica_id < global_shards[p].replica_id

\* An array with two Index values that alternate along the traversal, so that
\* the devices sharing an Index are not neighbours.
C1_Witness ==
  /\ Built
  /\ \E p, q, r \in DOMAIN global_shards :
       /\ p < q /\ q < r
       /\ global_shards[p].index = global_shards[r].index
       /\ global_shards[p].index # global_shards[q].index
       /\ global_shards[r].replica_id > 0

\* The distinct Index values of the mapping get_shard_indices returned.
DistinctIndices == {indices[p].index : p \in DOMAIN indices}

\* The element positions of the global array.
Positions == {pos \in (0..MaxDim) \X (0..MaxDim) :
                \A i \in DOMAIN global_shape : pos[i] < global_shape[i]}

Covers(index, pos) == \A i \in DOMAIN index : index[i].start <= pos[i] /\ pos[i] < index[i].stop

\* C2: the distinct Index values get_shard_indices returns tile the global
\* shape: every Index lies inside the global shape and every element position
\* lies in exactly one distinct Index.
C2_Tiling ==
  op = "get_shard_indices" =>
    /\ \A index \in DistinctIndices : \A i \in DOMAIN index :
         0 <= index[i].start /\ index[i].start <= index[i].stop
                             /\ index[i].stop <= global_shape[i]
    /\ \A pos \in Positions :
         Cardinality({index \in DistinctIndices : Covers(index, pos)}) = 1

\* A mapping that splits one array axis over a tuple of mesh axes into four
\* distinct non-empty shards.
C2_Witness ==
  /\ op = "get_shard_indices"
  /\ \E i \in DOMAIN mesh_axes : mesh_axes[i].kind = "tuple"
  /\ Cardinality(DistinctIndices) = MaxAxisSize * MaxAxisSize
  /\ Positions # {}

\* C3: in a constructed array global_shards has one Shard per mesh device, in
\* mesh order; a Shard carries a buffer exactly if its device belongs to the
\* current process; local_shards is the sub-list of the shards with a buffer,
\* as long as the list of the process's devices.
C3_LocalGlobalPartition ==
  Built =>
    /\ Len(global_shards) = Len(global_mesh.devices)
    /\ \A p \in DOMAIN global_shards :
         /\ global_shards[p].device = global_mesh.devices[p]
         /\ (global_shards[p].data # None)
              <=> (global_shards[p].device.process_index = process_index)
    /\ local_shards = SelectSeq(global_shards, LAMBDA sh : sh.data # None)
    /\ Len(local_shards) = NumLocal

\* An array on a mesh that the current process shares with another one.
C3_Witness ==
  /\ Built
  /\ Len(local_shards) > 1
  /\ Len(local_shards) < Len(global_shards)

\* The product of the sizes of the mesh axes no array axis is mapped to.
UnreferencedProduct ==
  LET used == {UsedAxes(mesh_axes)[k] : k \in DOMAIN UsedAxes(mesh_axes)}
      free == SelectSeq(axis_names, LAMBDA a : a \notin used)
  IN  prod([k \in DOMAIN free |-> global_mesh.shape[free[k]]])

DevicesWithIndex(index) == {p \in DOMAIN indices : indices[p].index = index}

\* An array axis of size 0 that is split over more than one device.
SplitsEmptyAxis ==
  \E i \in DOMAIN mesh_axes :
    global_shape[i] = 0 /\ Divisor(global_mesh.shape, mesh_axes[i]) > 1

Metadata(shards) ==
  [p \in DOMAIN shards |-> [device |-> shards[p].device, index |-> shards[p].index,
                            replica_id |-> shards[p].replica_id]]

\* C4: two processes with different process ids that assemble an array on the
\* same global shape, mesh and axis mapping get the same device, Index and
\* replica id at every position of global_shards; the lists differ in the
\* buffers only.
C4_CrossProcessAgreement ==
  (prev # NoPrev /\ Built /\ prev.process_index # process_index) =>
    Metadata(global_shards) = Metadata(prev.global_shards)

\* Two processes that own different devices of one mesh, with replicated shards.
C4_Witness ==
  /\ prev # NoPrev
  /\ Built
  /\ prev.process_index # process_index
  /\ global_shards # prev.global_shards
  /\ \E p \in DOMAIN global_shards : global_shards[p].replica_id > 0

Grouped == op = "from_batched_callback_with_devices"

\* The local devices share fewer Index values than there are local devices.
LocalReplication ==
  LET idx == get_shard_indices(global_shape, global_mesh, mesh_axes)
      lds == local_devices(global_mesh, process_index)
  IN  Cardinality({Lookup(idx, lds[k]) : k \in DOMAIN lds}) < Len(lds)

C6_CountMismatchFailsFirst ==
  (op = "construct" /\ Len(device_buffers) # NumLocal) =>
    /\ status = "AssertionError: len"
    /\ shards_built = 0
    /\ global_shards = <<>>
    /\ local_shards = <<>>

\* One buffer short on a mesh all of whose devices are local.
C6_Witness ==
  /\ op = "construct"
  /\ NumLocal = MaxAxisSize * MaxAxisSize
  /\ Len(device_buffers) + 1 = NumLocal
  /\ status = "AssertionError: len"

\* C7: after from_callback, local_data(p) is the user function's value at the
\* Index of the p-th local shard, on that shard's device, whatever the order
\* of the mesh's local devices.
C7_CallbackRoundTrip ==
  (op = "from_callback" /\ Built) =>
    \A p \in DOMAIN local_shards :
      local_data(p) = device_put(Apply(data_callback, local_shards[p].index, global_shape),
                                 local_shards[p].device)

\* A round trip over local devices taken in another order than the mesh's,
\* with different Indices, on a process that does not own the first device.
C7_Witness ==
  /\ op = "from_callback"
  /\ Built
  /\ Len(local_shards) > 1
  /\ device_buffers[1].device # local_shards[1].device
  /\ local_shards[1].index # local_shards[Len(local_shards)].index
  /\ local_shards[1].device # global_mesh.devices[1]

\* Scenario B/D: shape (4,4), a 2x2 mesh all local, axis mapping (None, y).
ScenarioD ==
  /\ global_shape = <<4, 4>>
  /\ global_mesh.shape = [a \in AxisNameSet |-> 2]
  /\ NumLocal = Len(global_mesh.devices)
  /\ mesh_axes = <<NoAxis, OneAxis("y")>>
  /\ Grouped

\* C9 as stated: in scenario D the user function is called exactly twice.
C9_Original == ScenarioD => cb_calls = 2

\* C9, amended: in scenario D the user function is called exactly once, with a
\* list of two (Index, devices) pairs, one per distinct Index, of two devices each.
C9_OneCallTwoGroups ==
  ScenarioD =>
    /\ cb_calls = 1
    /\ Len(cb_inp) = 2
    /\ \A k \in DOMAIN cb_inp : Len(cb_inp[k].devices) = 2
    /\ cb_inp[1].index # cb_inp[2].index

C9_Witness == ScenarioD /\ Built /\ cb_returns = "per_device"

\* The same buffers, possibly in another order.
SameBuffers(a, b) ==
  /\ Len(a) = Len(b)
  /\ {a[k] : k \in DOMAIN a} = {b[k] : k \in DOMAIN b}

\* C10: a buffer goes to the shard of the device it resides on. A permutation
\* of a buffer sequence that constructed an array constructs the same
\* global_shards and local_shards, and local_shards lists the local devices in
\* the order of the mesh's flat device traversal.
C10_BuffersAttachByDevice ==
  /\ (prev # NoPrev /\ status # "idle" /\ prev.process_index = process_index
        /\ SameBuffers(prev.device_buffers, device_buffers)) =>
       /\ Built
       /\ global_shards = prev.global_shards
       /\ local_shards = prev.local_shards
  /\ Built =>
       /\ [p \in DOMAIN local_shards |-> local_shards[p].device]
            = local_devices(global_mesh, process_index)
       /\ \A p \in DOMAIN local_shards :
            /\ local_data(p) \in {device_buffers[k] : k \in DOMAIN device_buffers}
            /\ local_data(p).device = local_shards[p].device

\* Two constructions by one process from the same buffers in different orders.
C10_Witness ==
  /\ prev # NoPrev
  /\ Built
  /\ prev.process_index = process_index
  /\ SameBuffers(prev.device_buffers, device_buffers)
  /\ prev.device_buffers # device_buffers
  /\ Len(device_buffers) > 1
====
